---- MODULE Spec2Model ----
(***************************************************************************)
(* Texas Hold'em equity estimate of fastgto-light:                         *)
(*   utils/winrate_utils.py  validate_cards, calculate_win_rate            *)
(*   utils/poker_utils.py    card_to_treys, monte_carlo_simulation         *)
(* One call of calculate_win_rate is followed from its arguments to the    *)
(* returned dictionary (or the exception that leaves the call), one step   *)
(* per iteration of the trial loop of monte_carlo_simulation.              *)
(*                                                                         *)
(* Representation.                                                         *)
(*  - A rank is one of the strings "2".."9","T","J","Q","K","A"; "" is the *)
(*    unspecified rank or suit of the select boxes.                        *)
(*  - The suit symbols of SUIT_MAP are written SPADE, HEART, DIAMOND, CLUB *)
(*    (the module is ASCII); "s","h","d","c" and "S","H","D","C" are the   *)
(*    suit letters, which card_to_treys also accepts through suit.lower(). *)
(*  - A treys card integer is modelled by 4 * rank + suit (rank 2..14,     *)
(*    suit 0..3 for s,h,d,c): like Card.new it is injective on the 52      *)
(*    cards and never 0.  None is modelled by 0, the one falsy value.      *)
(*  - win/tie/loss are exact fractions <<numerator, denominator>>; the     *)
(*    floating-point rounding of the divisions is not modelled.            *)
(*  - treys (Card, Deck, Evaluator) is a library outside the repository:   *)
(*    Deck() is a shuffled 52-card list, draw(n) pops n cards from it and  *)
(*    fails when fewer remain, evaluate() ranks the best five of the seven *)
(*    cards, a lower score being the better hand.                          *)
(***************************************************************************)
EXTENDS Integers, Sequences, FiniteSets, TLC

VARIABLES
    pc,                   \* "call" | "loop" | "done" | "raised"
    card1_rank, card1_suit, card2_rank, card2_suit,
    board_ranks, board_suits, num_opponents, num_simulations,
    hole_cards, board_cards,          \* arguments of monte_carlo_simulation
    wins, ties,                       \* its counters
    trials,                           \* iterations of the trial loop completed
    losses,                           \* trials counted neither as win nor as tie
    deck, current_board, opponents_hole_cards,   \* locals of the last trial
    player_score, opponent_scores,
    outcome,                          \* branch taken by the last trial
    result,                           \* the returned dictionary
    exception,                        \* the exception that left the call
    calls, cells,                     \* two calls of monte_carlo_simulation
    showdown,                         \* two hands before the evaluator
    heat,                             \* a range matrix and the hand looked up in it
    quiz,                             \* the quiz tab and its session state
    conv                              \* a (rank, suit) through the card conversions

call_vars == <<pc, card1_rank, card1_suit, card2_rank, card2_suit, board_ranks,
          board_suits, num_opponents, num_simulations, hole_cards, board_cards,
          wins, ties, trials, losses, deck, current_board, opponents_hole_cards,
          player_score, opponent_scores, outcome, result, exception>>

\* the state outside the one call followed above
page_vars == <<heat, quiz, conv>>

side_vars == <<calls, cells, showdown, page_vars>>

vars == <<call_vars, side_vars>>

inputs == <<card1_rank, card1_suit, card2_rank, card2_suit, board_ranks,
            board_suits, num_opponents, num_simulations>>

trial_locals == <<deck, current_board, opponents_hole_cards, player_score,
                  opponent_scores, outcome>>

-----------------------------------------------------------------------------
(* Bounds of the model *)

\* largest num_simulations of a call
MaxSims == 3
\* number of shuffles Deck() chooses from in each trial
NumShuffles == 4

-----------------------------------------------------------------------------
(* Program constants *)

\* the slider of the opponent count goes from 1 to MaxOpponents
MaxOpponents == 8
\* a board holds BoardSize cards
BoardSize == 5
\* every opponent is dealt HoleSize cards
HoleSize == 2
\* None (and the only falsy card value)
None == 0

-----------------------------------------------------------------------------
(* Sequences *)

Range(s) == {s[i] : i \in DOMAIN s}

Max(S) == CHOOSE m \in S : \A y \in S : y <= m

IndexOf(s, x) == CHOOSE i \in DOMAIN s : s[i] = x

\* len(cards) != len(set(cards)) is false
NoDuplicates(s) == Cardinality(Range(s)) = Len(s)

-----------------------------------------------------------------------------
(* Cards: RANK_MAP, SUIT_MAP, card_to_treys *)

STR_RANKS == <<"2", "3", "4", "5", "6", "7", "8", "9", "T", "J", "Q", "K", "A">>

\* RANK_MAP: '2' -> 2 .. 'A' -> 14
RANK_MAP(rank) == IndexOf(STR_RANKS, rank) + 1

SuitSymbols == <<"SPADE", "HEART", "DIAMOND", "CLUB">>
SuitChars == <<"s", "h", "d", "c">>
SuitCapitals == <<"S", "H", "D", "C">>

\* str.lower() on the suit letters
Lower(suit) ==
    IF suit \in Range(SuitCapitals) THEN SuitChars[IndexOf(SuitCapitals, suit)]
    ELSE suit

\* SUIT_MAP.get(suit, suit.lower())
SUIT_MAP_get(suit) ==
    IF suit \in Range(SuitSymbols) THEN SuitChars[IndexOf(SuitSymbols, suit)]
    ELSE Lower(suit)

\* Card.new(rank + suit_char)
CardNew(rank, suit_char) == 4 * RANK_MAP(rank) + (IndexOf(SuitChars, suit_char) - 1)

RankOf(c) == c \div 4
SuitOf(c) == c % 4

\* truthiness of a rank or suit string, and of a card
Specified(v) == v # ""
IsCard(c) == c # None

card_to_treys(rank, suit) ==
    IF ~Specified(rank) \/ ~Specified(suit) THEN None
    ELSE CardNew(rank, SUIT_MAP_get(suit))

\* GetFullDeck(): every rank from 2 to A, in each rank s, h, d, c
FullDeck ==
    [i \in 1..(Len(STR_RANKS) * Len(SuitChars)) |->
        CardNew(STR_RANKS[(i - 1) \div Len(SuitChars) + 1],
                SuitChars[((i - 1) % Len(SuitChars)) + 1])]

-----------------------------------------------------------------------------
(* treys.Evaluator.evaluate: the best five cards of board + hand.  The score *)
(* orders hands by category, then by the tie-break ranks of the category;  *)
(* a lower score is the better hand, equal scores are equal hands.         *)

RECURSIVE TopK(_, _, _)
\* the k highest ranks of S appended to acc, one base-15 digit each
TopK(S, k, acc) ==
    IF k = 0 THEN acc
    ELSE IF S = {} THEN TopK(S, k - 1, acc * 15)
    ELSE LET m == Max(S) IN TopK(S \ {m}, k - 1, acc * 15 + m)

\* the high end of the best run of five ranks in R (5 for the wheel), or 0
StraightHigh(R) ==
    LET hs == {h \in 5..14 : /\ \A d \in 0..3 : (h - d) \in R
                             /\ (IF h = 5 THEN 14 ELSE h - 4) \in R}
    IN  IF hs = {} THEN 0 ELSE Max(hs)

TieBreakBase == 15 * 15 * 15 * 15 * 15

\* the tie-break ranks first, the category second
HandScoreTieBreakFirst(category, tb) ==
    (TieBreakBase - 1 - tb) * 9 + (category - 1)

\* category 1 (straight flush) .. 9 (high card), tie-break tb higher = better
HandScore(category, tb) ==
    (category - 1) * TieBreakBase + (TieBreakBase - 1 - tb)

evaluate(board, hand) ==
    LET cs == Range(board) \cup Range(hand)
        all == {RankOf(c) : c \in cs}
        cnt == [r \in all |-> Cardinality({c \in cs : RankOf(c) = r})]
        quads == {r \in all : cnt[r] = 4}
        trips == {r \in all : cnt[r] = 3}
        pairs == {r \in all : cnt[r] = 2}
        fs == {s \in 0..3 : Cardinality({c \in cs : SuitOf(c) = s}) >= 5}
        fr == {RankOf(c) : c \in {d \in cs : SuitOf(d) \in fs}}
        sf == IF fs = {} THEN 0 ELSE StraightHigh(fr)
        st == StraightHigh(all)
    IN  IF sf # 0 THEN HandScore(1, sf)
        ELSE IF quads # {} THEN
            LET q == Max(quads) IN HandScore(2, TopK(all \ {q}, 1, q))
        ELSE IF trips # {} /\ (Cardinality(trips) >= 2 \/ pairs # {}) THEN
            LET t == Max(trips)
            IN  HandScore(3, TopK((trips \ {t}) \cup pairs, 1, t))
        ELSE IF fs # {} THEN HandScore(4, TopK(fr, 5, 0))
        ELSE IF st # 0 THEN HandScore(5, st)
        ELSE IF trips # {} THEN
            LET t == Max(trips) IN HandScore(6, TopK(all \ {t}, 2, t))
        ELSE IF Cardinality(pairs) >= 2 THEN
            LET p1 == Max(pairs)
                p2 == Max(pairs \ {p1})
            IN  HandScore(7, TopK(all \ {p1, p2}, 1, p1 * 15 + p2))
        ELSE IF pairs # {} THEN
            LET p == Max(pairs) IN HandScore(8, TopK(all \ {p}, 3, p))
        ELSE HandScore(9, TopK(all, 5, 0))

-----------------------------------------------------------------------------
(* treys.Deck *)

\* the step and the start of shuffle j: the deck is dealt from position
\* ShuffleStart(j) of the full deck in steps of ShuffleStep(j), a step that
\* is odd and no multiple of 13, so that every card comes exactly once
ShuffleStep(j) == IF (2 * j + 1) % 13 = 0 THEN 2 * j + 3 ELSE 2 * j + 1
ShuffleStart(j) == (j * 19) % Len(FullDeck)

\* Deck(): a fresh, shuffled full deck
Deck(j) ==
    [i \in 1..Len(FullDeck) |->
        FullDeck[((ShuffleStart(j) + (i - 1) * ShuffleStep(j)) % Len(FullDeck)) + 1]]

\* deck.cards.remove(card), for a card that is in the list
ListRemove(cards, card) == SelectSeq(cards, LAMBDA c : c # card)

\* deck.draw(n), for n <= len(deck.cards): the cards drawn and the cards left
Draw(cards, n) ==
    [drawn |-> SubSeq(cards, 1, n), rest |-> SubSeq(cards, n + 1, Len(cards))]

-----------------------------------------------------------------------------
(* Probabilities: exact fractions <<numerator, denominator>> *)

Zero == <<0, 1>>
One == <<1, 1>>
Div(a, b) == <<a, b>>
FracAdd(x, y) == <<x[1] * y[2] + y[1] * x[2], x[2] * y[2]>>
FracSub(x, y) == <<x[1] * y[2] - y[1] * x[2], x[2] * y[2]>>
FracEq(x, y) == x[1] * y[2] = y[1] * x[2]
\* x <= y, for fractions of any sign of denominator
FracLeq(x, y) ==
    IF x[2] * y[2] > 0 THEN x[1] * y[2] <= y[1] * x[2]
    ELSE x[1] * y[2] >= y[1] * x[2]

-----------------------------------------------------------------------------
(* winrate_utils.py *)

HOLE_CARD_ERROR == "hole cards are not specified correctly"
DUPLICATE_ERROR == "the same card is selected more than once"

\* [(board_ranks[i], board_suits[i]) for i in range(len(board_ranks))
\*      if board_ranks[i] and board_suits[i]]
SpecifiedBoard(ranks, suits) ==
    SelectSeq([i \in 1..Len(ranks) |-> <<ranks[i], suits[i]>>],
              LAMBDA p : Specified(p[1]) /\ Specified(p[2]))

\* the list of f"{rank}{suit}" strings validate_cards collects; a rank is one
\* character, so the string is the pair
CardStrings(c1r, c1s, c2r, c2s, board) ==
    (IF Specified(c1r) /\ Specified(c1s) THEN <<<<c1r, c1s>>>> ELSE <<>>)
    \o (IF Specified(c2r) /\ Specified(c2s) THEN <<<<c2r, c2s>>>> ELSE <<>>)
    \o SelectSeq(board, LAMBDA p : Specified(p[1]) /\ Specified(p[2]))

\* validate_cards without the loop over board_cards
validate_hole_cards_only(c1r, c1s, c2r, c2s, board) ==
    IF ~NoDuplicates(CardStrings(c1r, c1s, c2r, c2s, <<>>))
    THEN <<FALSE, DUPLICATE_ERROR>>
    ELSE <<TRUE, "">>

\* returns <<is_valid, error_message>>
validate_cards(c1r, c1s, c2r, c2s, board) ==
    IF ~NoDuplicates(CardStrings(c1r, c1s, c2r, c2s, board))
    THEN <<FALSE, DUPLICATE_ERROR>>
    ELSE <<TRUE, "">>

\* an error return that reports a certain loss instead of zeroes
ErrorResultAsLoss(message) ==
    [win |-> Zero, tie |-> Zero, loss |-> One, error |-> message]

\* the dictionary of the two error returns
ErrorResult(message) ==
    [win |-> Zero, tie |-> Zero, loss |-> Zero, error |-> message]

\* board_cards with one entry per slot, None for an unspecified one
ConvertBoardEverySlot(ranks, suits) ==
    [i \in 1..Len(ranks) |-> card_to_treys(ranks[i], suits[i])]

\* the board_cards list calculate_win_rate builds
ConvertBoard(ranks, suits) ==
    LET specified == SpecifiedBoard(ranks, suits)
    IN  SelectSeq([i \in 1..Len(specified) |->
                      card_to_treys(specified[i][1], specified[i][2])],
                  IsCard)

-----------------------------------------------------------------------------
(* poker_utils.py: one iteration of the loop of monte_carlo_simulation *)

RECURSIVE RemoveKnown(_, _)
\* for card in hole_cards + board_cards: if card is not None:
\*     deck.cards.remove(card)          -- ValueError when it is not there
RemoveKnown(cards, known) ==
    IF known = <<>> THEN [ok |-> TRUE, cards |-> cards]
    ELSE IF ~IsCard(Head(known)) THEN RemoveKnown(cards, Tail(known))
    ELSE IF Head(known) \notin Range(cards) THEN [ok |-> FALSE, cards |-> cards]
    ELSE RemoveKnown(ListRemove(cards, Head(known)), Tail(known))

\* the loop body without the removal of the known cards
PrepareDeckKeepKnown(known, j) == [ok |-> TRUE, cards |-> Deck(j)]

\* Deck() and the removal done once, before the loop: later trials go on
\* with the deck the previous trial left
PrepareDeckOnce(known, j) ==
    IF trials = 0 THEN RemoveKnown(Deck(j), known)
    ELSE [ok |-> TRUE, cards |-> deck]

\* deck = Deck() with shuffle j, then the removal of the known cards
PrepareDeck(known, j) == RemoveKnown(Deck(j), known)

\* current_board = [c for c in board_cards if c is not None]
KnownBoard(board) == SelectSeq(board, IsCard)

\* remaining_board = 5, whatever is known
RemainingBoardFull(board) == BoardSize

\* remaining_board = 5 - len(current_board)
RemainingBoard(board) == BoardSize - Len(KnownBoard(board))

\* if remaining_board > 0: current_board += deck.draw(remaining_board)
CompleteBoard(cards, board) ==
    LET n == RemainingBoard(board)
    IN  IF n <= 0 THEN [ok |-> TRUE, board |-> KnownBoard(board), rest |-> cards]
        ELSE IF n > Len(cards)
        THEN [ok |-> FALSE, board |-> KnownBoard(board), rest |-> cards]
        ELSE [ok |-> TRUE, board |-> KnownBoard(board) \o Draw(cards, n).drawn,
              rest |-> Draw(cards, n).rest]

RECURSIVE DealLoop(_, _, _)
\* the loop below, with the hands dealt so far
DealLoop(cards, n, hands) ==
    IF n <= 0 THEN [ok |-> TRUE, hands |-> hands, rest |-> cards]
    ELSE IF HoleSize > Len(cards) THEN [ok |-> FALSE, hands |-> hands, rest |-> cards]
    ELSE DealLoop(Draw(cards, HoleSize).rest, n - 1,
                  Append(hands, Draw(cards, HoleSize).drawn))

\* opponents_hole_cards = []
\* for _ in range(num_opponents): opponents_hole_cards.append(deck.draw(2))
DealOpponents(cards, n) == DealLoop(cards, n, <<>>)

\* the win test with <= for <
ClassifyWinOnEqual(player, scores) ==
    IF \A i \in DOMAIN scores : player <= scores[i] THEN "win"
    ELSE IF \E i \in DOMAIN scores : player = scores[i] THEN "tie"
    ELSE "loss"

\* a tie only when no opponent has a better score
ClassifyTieOnlyIfBest(player, scores) ==
    IF \A i \in DOMAIN scores : player < scores[i] THEN "win"
    ELSE IF /\ \E i \in DOMAIN scores : player = scores[i]
            /\ \A i \in DOMAIN scores : player <= scores[i] THEN "tie"
    ELSE "loss"

\* if all(player_score < score ...): wins += 1
\* elif any(player_score == score ...): ties += 1
Classify(player, scores) ==
    IF \A i \in DOMAIN scores : player < scores[i] THEN "win"
    ELSE IF \E i \in DOMAIN scores : player = scores[i] THEN "tie"
    ELSE "loss"

\* wins += 1 outside the if
WinIncrementAlways(branch) == 1

WinIncrement(branch) == IF branch = "win" THEN 1 ELSE 0
TieIncrement(branch) == IF branch = "tie" THEN 1 ELSE 0

\* loss_prob = 1 - win_prob
LossProbWithoutTies(win_prob, tie_prob) == FracSub(One, win_prob)

\* loss_prob = 1 - win_prob - tie_prob
LossProb(win_prob, tie_prob) == FracSub(FracSub(One, win_prob), tie_prob)

-----------------------------------------------------------------------------
(* The calls explored *)

Unspecified == <<"", "">>

\* first hole card: a card, or one with its rank or its suit left empty
Card1Inputs == {<<"A", "SPADE">>, <<"", "SPADE">>, <<"A", "">>}

\* second hole card: two cards that go with the first, the first card again,
\* or one with its rank or its suit left empty
Card2Inputs == {<<"A", "HEART">>, <<"T", "CLUB">>, <<"A", "SPADE">>,
                <<"", "HEART">>, <<"K", "">>}

\* a straight on the board, of which the first k cards are known
BoardPool == <<<<"5", "SPADE">>, <<"6", "HEART">>, <<"7", "DIAMOND">>,
               <<"8", "CLUB">>, <<"9", "SPADE">>>>

PrefixBoard(k) ==
    [i \in 1..BoardSize |-> IF i <= k THEN BoardPool[i] ELSE Unspecified]

\* a board card that is a hole card; a board card given twice; slots with only
\* a rank or only a suit between specified ones; a card given once with its
\* suit symbol and once with its suit letter; the same rank twice without a
\* suit beside a card of that rank
SpecialBoards ==
    { <<<<"A", "SPADE">>, Unspecified, Unspecified, Unspecified, Unspecified>>,
      <<<<"5", "SPADE">>, <<"5", "SPADE">>, Unspecified, Unspecified, Unspecified>>,
      <<Unspecified, <<"6", "HEART">>, <<"7", "">>, <<"", "CLUB">>, <<"9", "SPADE">>>>,
      <<<<"5", "SPADE">>, <<"5", "s">>, Unspecified, Unspecified, Unspecified>>,
      <<<<"7", "">>, <<"7", "">>, <<"7", "DIAMOND">>, Unspecified, Unspecified>> }

BoardInputs == {PrefixBoard(k) : k \in 0..BoardSize} \cup SpecialBoards

OpponentCounts == 0..MaxOpponents
SimulationCounts == (-1)..MaxSims

NoResult == [win |-> Zero, tie |-> Zero, loss |-> Zero, error |-> "no result"]

\* nothing else is running
Idle == <<>>

Init ==
    /\ pc = "call"
    /\ \E c1 \in Card1Inputs, c2 \in Card2Inputs, b \in BoardInputs :
          /\ card1_rank = c1[1] /\ card1_suit = c1[2]
          /\ card2_rank = c2[1] /\ card2_suit = c2[2]
          /\ board_ranks = [i \in 1..BoardSize |-> b[i][1]]
          /\ board_suits = [i \in 1..BoardSize |-> b[i][2]]
    /\ num_opponents \in OpponentCounts
    /\ num_simulations \in SimulationCounts
    /\ hole_cards = <<>> /\ board_cards = <<>>
    /\ wins = 0 /\ ties = 0 /\ trials = 0 /\ losses = 0
    /\ deck = <<>> /\ current_board = <<>> /\ opponents_hole_cards = <<>>
    /\ player_score = 0 /\ opponent_scores = <<>> /\ outcome = "none"
    /\ result = NoResult
    /\ exception = "none"
    /\ calls = Idle /\ cells = Idle /\ showdown = Idle
    /\ heat = Idle /\ quiz = Idle /\ conv = Idle

-----------------------------------------------------------------------------
(* calculate_win_rate up to its call of monte_carlo_simulation *)

\* if not hole_card1 and not hole_card2
BothHoleCardsMissing(hole_card1, hole_card2) == ~IsCard(hole_card1) /\ ~IsCard(hole_card2)

\* if not hole_card1 or not hole_card2
HoleCardMissing(hole_card1, hole_card2) == ~IsCard(hole_card1) \/ ~IsCard(hole_card2)

CalculateWinRate ==
    /\ pc = "call"
    /\ LET hole_card1 == card_to_treys(card1_rank, card1_suit)
           hole_card2 == card_to_treys(card2_rank, card2_suit)
           checked == validate_cards(card1_rank, card1_suit, card2_rank, card2_suit,
                                     SpecifiedBoard(board_ranks, board_suits))
       IN  IF HoleCardMissing(hole_card1, hole_card2)
           THEN /\ pc' = "done"
                /\ result' = ErrorResult(HOLE_CARD_ERROR)
                /\ UNCHANGED <<hole_cards, board_cards>>
           ELSE IF ~checked[1]
           THEN /\ pc' = "done"
                /\ result' = ErrorResult(checked[2])
                /\ UNCHANGED <<hole_cards, board_cards>>
           ELSE /\ pc' = "loop"
                /\ hole_cards' = <<hole_card1, hole_card2>>
                /\ board_cards' = ConvertBoard(board_ranks, board_suits)
                /\ UNCHANGED result
    /\ UNCHANGED <<inputs, wins, ties, trials, losses, trial_locals, exception,
                   side_vars>>

-----------------------------------------------------------------------------
(* monte_carlo_simulation *)

\* the return statement inside the loop body: the loop ends after one trial
RangeExhaustedAfterFirst(completed, n) == completed >= n \/ completed >= 1

\* `for _ in range(n)` has no iteration left after `completed` iterations
RangeExhausted(completed, n) == completed >= n

\* board_cards aliased by current_board, which += then extends
BoardAliased(board, completed) == completed

\* board_cards after a trial: current_board is a new list, so the += that
\* completes it leaves the caller's list alone
BoardAfterTrial(board, completed) == board

\* one iteration of `for _ in range(num_simulations)`, with shuffle j
Trial(j) ==
    /\ pc = "loop"
    /\ ~RangeExhausted(trials, num_simulations)
    /\ \E removed \in {PrepareDeck(hole_cards \o board_cards, j)} :
       \E completed \in {CompleteBoard(removed.cards, board_cards)} :
       \E dealt \in {DealOpponents(completed.rest, num_opponents)} :
          IF ~removed.ok
          THEN /\ pc' = "raised"
               /\ exception' = "ValueError"
               /\ deck' = removed.cards
               /\ UNCHANGED <<wins, ties, trials, losses, current_board,
                              opponents_hole_cards, player_score,
                              opponent_scores, outcome, board_cards>>
          ELSE IF ~completed.ok \/ ~dealt.ok
          THEN /\ pc' = "raised"
               /\ exception' = "IndexError"
               /\ deck' = IF completed.ok THEN dealt.rest ELSE completed.rest
               /\ current_board' = completed.board
               /\ UNCHANGED <<wins, ties, trials, losses, opponents_hole_cards,
                              player_score, opponent_scores, outcome, board_cards>>
          ELSE \E player \in {evaluate(completed.board, hole_cards)} :
               \E scores \in {[i \in 1..Len(dealt.hands) |->
                                  evaluate(completed.board, dealt.hands[i])]} :
               \E branch \in {Classify(player, scores)} :
                  /\ pc' = "loop"
                  /\ deck' = dealt.rest
                  /\ current_board' = completed.board
                  /\ opponents_hole_cards' = dealt.hands
                  /\ player_score' = player
                  /\ opponent_scores' = scores
                  /\ outcome' = branch
                  /\ wins' = wins + WinIncrement(branch)
                  /\ ties' = ties + TieIncrement(branch)
                  /\ losses' = losses + (IF branch = "loss" THEN 1 ELSE 0)
                  /\ trials' = trials + 1
                  /\ board_cards' = BoardAfterTrial(board_cards, completed.board)
                  /\ UNCHANGED exception
    /\ UNCHANGED <<inputs, hole_cards, result, side_vars>>

\* after the loop: the three divisions and the returned dictionary
Return ==
    /\ pc = "loop"
    /\ RangeExhausted(trials, num_simulations)
    /\ IF num_simulations = 0
       THEN /\ pc' = "raised"
            /\ exception' = "ZeroDivisionError"
            /\ UNCHANGED result
       ELSE /\ pc' = "done"
            /\ result' = [win |-> Div(wins, num_simulations),
                          tie |-> Div(ties, num_simulations),
                          loss |-> LossProb(Div(wins, num_simulations),
                                            Div(ties, num_simulations)),
                          error |-> ""]
            /\ UNCHANGED exception
    /\ UNCHANGED <<inputs, hole_cards, board_cards, wins, ties, trials, losses,
                   trial_locals, side_vars>>

Next ==
    \/ CalculateWinRate
    \/ \E j \in 1..NumShuffles : Trial(j)
    \/ Return

Spec == Init /\ [][Next]_vars

-----------------------------------------------------------------------------
(* Two calls of monte_carlo_simulation with their trials interleaved: every *)
(* call has its own frame (evaluator, wins, ties, deck, current_board,     *)
(* opponents_hole_cards); the shuffle of Deck() is the shared random source. *)

\* largest num_simulations of either call
PairSims == 2
\* number of shuffles Deck() chooses from in a trial of either call
PairShuffles == 2

Callers == {1, 2}
Other(c) == IF c = 1 THEN 2 ELSE 1

\* the one call followed by CalculateWinRate, Trial and Return is not running
NoCall ==
    /\ pc = "idle"
    /\ card1_rank = "" /\ card1_suit = "" /\ card2_rank = "" /\ card2_suit = ""
    /\ board_ranks = <<>> /\ board_suits = <<>>
    /\ num_opponents = 0 /\ num_simulations = 0
    /\ hole_cards = <<>> /\ board_cards = <<>>
    /\ wins = 0 /\ ties = 0 /\ trials = 0 /\ losses = 0
    /\ deck = <<>> /\ current_board = <<>> /\ opponents_hole_cards = <<>>
    /\ player_score = 0 /\ opponent_scores = <<>> /\ outcome = "none"
    /\ result = NoResult
    /\ exception = "none"

\* hole_cards, board_cards, num_opponents as calculate_win_rate passes them
Arguments(c1, c2, b, n) ==
    [hole_cards |-> <<card_to_treys(c1[1], c1[2]), card_to_treys(c2[1], c2[2])>>,
     board_cards |-> ConvertBoard([i \in 1..BoardSize |-> b[i][1]],
                                  [i \in 1..BoardSize |-> b[i][2]]),
     num_opponents |-> n]

PairArguments ==
    { Arguments(<<"A", "SPADE">>, <<"A", "HEART">>, PrefixBoard(0), 1),
      Arguments(<<"A", "SPADE">>, <<"T", "CLUB">>, PrefixBoard(3), 2),
      Arguments(<<"A", "SPADE">>, <<"A", "HEART">>, PrefixBoard(5), 2) }

\* the frame of a call that has not run a trial yet
Frame(args, n) ==
    [pc |-> "call", hole_cards |-> args.hole_cards, board_cards |-> args.board_cards,
     num_opponents |-> args.num_opponents, num_simulations |-> n,
     trials |-> 0, losses |-> 0, deck |-> <<>>, current_board |-> <<>>,
     opponents_hole_cards |-> <<>>, choices |-> <<>>, outcomes |-> <<>>,
     result |-> NoResult, exception |-> "none"]

\* wins and ties in one cell that both calls update
CounterCellShared(c) == 1

\* wins and ties are locals: every call has its own
CounterCell(c) == c

\* wins and ties never reset: a call goes on from the count it finds
CounterAtEntryCarried(left) == left

\* wins = 0, ties = 0
CounterAtEntry(left) == 0

InitPair ==
    /\ NoCall
    /\ showdown = Idle
    /\ heat = Idle /\ quiz = Idle /\ conv = Idle
    /\ \E a1 \in PairArguments, a2 \in PairArguments :
       \E n1 \in 1..PairSims, n2 \in 1..PairSims :
          calls = [c \in Callers |-> IF c = 1 THEN Frame(a1, n1) ELSE Frame(a2, n2)]
    /\ cells = [c \in Callers |-> [wins |-> 0, ties |-> 0]]

\* call c enters monte_carlo_simulation
PairEnter(c) ==
    /\ calls[c].pc = "call"
    /\ calls' = [calls EXCEPT ![c].pc = "loop"]
    /\ cells' = [cells EXCEPT ![CounterCell(c)] =
                    [wins |-> CounterAtEntry(cells[Other(c)].wins),
                     ties |-> CounterAtEntry(cells[Other(c)].ties)]]
    /\ UNCHANGED <<call_vars, showdown, page_vars>>

\* one iteration of the loop of call c, with shuffle j
PairTrial(c, j) ==
    /\ calls[c].pc = "loop"
    /\ ~RangeExhausted(calls[c].trials, calls[c].num_simulations)
    /\ \E f \in {calls[c]} :
       \E removed \in {PrepareDeck(f.hole_cards \o f.board_cards, j)} :
       \E completed \in {CompleteBoard(removed.cards, f.board_cards)} :
       \E dealt \in {DealOpponents(completed.rest, f.num_opponents)} :
          IF ~removed.ok \/ ~completed.ok \/ ~dealt.ok
          THEN /\ calls' = [calls EXCEPT
                              ![c].pc = "raised",
                              ![c].exception =
                                  IF ~removed.ok THEN "ValueError" ELSE "IndexError"]
               /\ UNCHANGED cells
          ELSE \E player \in {evaluate(completed.board, f.hole_cards)} :
               \E scores \in {[i \in 1..Len(dealt.hands) |->
                                  evaluate(completed.board, dealt.hands[i])]} :
               \E branch \in {Classify(player, scores)} :
                  /\ calls' = [calls EXCEPT
                                 ![c].deck = dealt.rest,
                                 ![c].current_board = completed.board,
                                 ![c].opponents_hole_cards = dealt.hands,
                                 ![c].trials = f.trials + 1,
                                 ![c].losses =
                                     f.losses + (IF branch = "loss" THEN 1 ELSE 0),
                                 ![c].choices = Append(f.choices, j),
                                 ![c].outcomes = Append(f.outcomes, branch)]
                  /\ cells' = [cells EXCEPT
                                 ![CounterCell(c)].wins = @ + WinIncrement(branch),
                                 ![CounterCell(c)].ties = @ + TieIncrement(branch)]
    /\ UNCHANGED <<call_vars, showdown, page_vars>>

\* call c leaves the loop and returns
PairReturn(c) ==
    /\ calls[c].pc = "loop"
    /\ RangeExhausted(calls[c].trials, calls[c].num_simulations)
    /\ \E n \in {calls[c].num_simulations} :
       \E counted \in {cells[CounterCell(c)]} :
          IF n = 0
          THEN calls' = [calls EXCEPT ![c].pc = "raised",
                                      ![c].exception = "ZeroDivisionError"]
          ELSE calls' = [calls EXCEPT
                           ![c].pc = "done",
                           ![c].result =
                               [win |-> Div(counted.wins, n),
                                tie |-> Div(counted.ties, n),
                                loss |-> LossProb(Div(counted.wins, n),
                                                  Div(counted.ties, n)),
                                error |-> ""]]
    /\ UNCHANGED <<call_vars, cells, showdown, page_vars>>

NextPair ==
    \/ \E c \in Callers : PairEnter(c)
    \/ \E c \in Callers, j \in 1..PairShuffles : PairTrial(c, j)
    \/ \E c \in Callers : PairReturn(c)

SpecPair == InitPair /\ [][NextPair]_vars

-----------------------------------------------------------------------------
(* Two five-card hands before the evaluator: each is scored as a three-card *)
(* board with two hole cards, and the scores are compared as in a trial.   *)

\* a hand of the table below: its category (1 straight flush .. 9 high card),
\* the ranks that break ties inside the category, and its five cards
Hand(category, tie_break, c) ==
    [category |-> category, tie_break |-> tie_break,
     board |-> <<card_to_treys(c[1][1], c[1][2]), card_to_treys(c[2][1], c[2][2]),
                 card_to_treys(c[3][1], c[3][2])>>,
     hand |-> <<card_to_treys(c[4][1], c[4][2]), card_to_treys(c[5][1], c[5][2])>>]

SampleHands ==
    << Hand(1, <<14>>, <<<<"A", "SPADE">>, <<"K", "SPADE">>, <<"Q", "SPADE">>,
                         <<"J", "SPADE">>, <<"T", "SPADE">>>>),
       Hand(2, <<13, 2>>, <<<<"K", "DIAMOND">>, <<"K", "HEART">>, <<"K", "CLUB">>,
                            <<"K", "SPADE">>, <<"2", "DIAMOND">>>>),
       Hand(3, <<2, 5>>, <<<<"2", "SPADE">>, <<"2", "HEART">>, <<"2", "DIAMOND">>,
                           <<"5", "CLUB">>, <<"5", "DIAMOND">>>>),
       Hand(7, <<9, 4, 13>>, <<<<"9", "SPADE">>, <<"9", "HEART">>, <<"4", "DIAMOND">>,
                               <<"4", "CLUB">>, <<"K", "SPADE">>>>),
       Hand(7, <<14, 13, 2>>, <<<<"A", "SPADE">>, <<"A", "HEART">>, <<"K", "DIAMOND">>,
                                <<"K", "HEART">>, <<"2", "CLUB">>>>),
       Hand(7, <<14, 12, 3>>, <<<<"A", "DIAMOND">>, <<"A", "CLUB">>, <<"Q", "HEART">>,
                                <<"Q", "DIAMOND">>, <<"3", "SPADE">>>>),
       Hand(1, <<5>>, <<<<"5", "HEART">>, <<"4", "HEART">>, <<"3", "HEART">>,
                        <<"2", "HEART">>, <<"A", "HEART">>>>),
       Hand(2, <<3, 14>>, <<<<"3", "DIAMOND">>, <<"3", "HEART">>, <<"3", "CLUB">>,
                            <<"3", "SPADE">>, <<"A", "DIAMOND">>>>),
       Hand(3, <<2, 4>>, <<<<"2", "SPADE">>, <<"2", "HEART">>, <<"2", "CLUB">>,
                           <<"4", "CLUB">>, <<"4", "DIAMOND">>>>),
       Hand(4, <<14, 11, 9, 6, 3>>,
            <<<<"A", "DIAMOND">>, <<"J", "DIAMOND">>, <<"9", "DIAMOND">>,
              <<"6", "DIAMOND">>, <<"3", "DIAMOND">>>>),
       Hand(4, <<7, 5, 4, 3, 2>>,
            <<<<"7", "CLUB">>, <<"5", "CLUB">>, <<"4", "CLUB">>,
              <<"3", "CLUB">>, <<"2", "CLUB">>>>),
       Hand(5, <<14>>, <<<<"A", "SPADE">>, <<"K", "HEART">>, <<"Q", "DIAMOND">>,
                         <<"J", "CLUB">>, <<"T", "SPADE">>>>),
       Hand(5, <<5>>, <<<<"A", "SPADE">>, <<"2", "HEART">>, <<"3", "DIAMOND">>,
                        <<"4", "CLUB">>, <<"5", "SPADE">>>>),
       Hand(6, <<7, 13, 2>>, <<<<"7", "SPADE">>, <<"7", "HEART">>, <<"7", "DIAMOND">>,
                               <<"K", "CLUB">>, <<"2", "SPADE">>>>),
       Hand(6, <<2, 14, 13>>, <<<<"2", "SPADE">>, <<"2", "HEART">>, <<"2", "DIAMOND">>,
                                <<"A", "CLUB">>, <<"K", "SPADE">>>>),
       Hand(8, <<12, 9, 6, 3>>, <<<<"Q", "SPADE">>, <<"Q", "HEART">>, <<"9", "DIAMOND">>,
                                  <<"6", "CLUB">>, <<"3", "SPADE">>>>),
       Hand(8, <<11, 14, 6, 3>>, <<<<"J", "SPADE">>, <<"J", "HEART">>, <<"A", "DIAMOND">>,
                                   <<"6", "CLUB">>, <<"3", "SPADE">>>>),
       Hand(9, <<14, 11, 9, 6, 3>>,
            <<<<"A", "SPADE">>, <<"J", "HEART">>, <<"9", "DIAMOND">>,
              <<"6", "CLUB">>, <<"3", "SPADE">>>>),
       Hand(9, <<14, 11, 9, 6, 2>>,
            <<<<"A", "HEART">>, <<"J", "CLUB">>, <<"9", "SPADE">>,
              <<"6", "DIAMOND">>, <<"2", "SPADE">>>>),
       Hand(9, <<14, 11, 9, 6, 3>>,
            <<<<"A", "CLUB">>, <<"J", "SPADE">>, <<"9", "HEART">>,
              <<"6", "HEART">>, <<"3", "DIAMOND">>>>) >>

InitEval ==
    /\ NoCall
    /\ calls = Idle /\ cells = Idle
    /\ heat = Idle /\ quiz = Idle /\ conv = Idle
    /\ \E a \in DOMAIN SampleHands, b \in DOMAIN SampleHands :
          showdown = [pc |-> "dealt", first |-> a, second |-> b,
                      scores |-> <<>>, outcome |-> "none"]

\* both hands are evaluated and the first is compared with the second
Showdown ==
    /\ showdown.pc = "dealt"
    /\ \E a \in {SampleHands[showdown.first]}, b \in {SampleHands[showdown.second]} :
       \E player \in {evaluate(a.board, a.hand)} :
       \E scores \in {<<evaluate(b.board, b.hand)>>} :
          showdown' = [showdown EXCEPT !.pc = "scored",
                                       !.scores = <<player>> \o scores,
                                       !.outcome = Classify(player, scores)]
    /\ UNCHANGED <<call_vars, calls, cells, page_vars>>

NextEval == Showdown

SpecEval == InitEval /\ [][NextEval]_vars

-----------------------------------------------------------------------------
(* heatmap_utils.py: the range matrices.  A frequency is written in tenths  *)
(* (0.7 is 7), so that min(1.0, f + 0.2) is Min(10, f + 2); the rounding of *)
(* the floating-point sums is not modelled.  The opponent types are written *)
(* standard, tight, loose, passive, aggressive.                            *)

Min(a, b) == IF a < b THEN a ELSE b

\* range(a, b)
PyRange(a, b) == [i \in 1..(b - a) |-> a + i - 1]

\* s[-n:]
Last(s, n) == SubSeq(s, Len(s) - n + 1, Len(s))

NUMERIC_RANKS == PyRange(2, 15)
DISPLAY_RANKS == STR_RANKS

RANK_TO_NUM(rank) == NUMERIC_RANKS[IndexOf(DISPLAY_RANKS, rank)]

\* the pairs (a, b) in the order of `for a in r1: for b in r2:`
Nested(r1, r2) ==
    [k \in 1..(Len(r1) * Len(r2)) |->
        <<r1[((k - 1) \div Len(r2)) + 1], r2[((k - 1) % Len(r2)) + 1]>>]

RECURSIVE FlattenFrom(_, _, _)
\* ss[lo] \o ... \o ss[hi]
FlattenFrom(ss, lo, hi) ==
    IF lo > hi THEN <<>>
    ELSE IF lo = hi THEN ss[lo]
    ELSE LET mid == (lo + hi) \div 2
         IN  FlattenFrom(ss, lo, mid) \o FlattenFrom(ss, mid + 1, hi)

Flatten(ss) == FlattenFrom(ss, 1, Len(ss))

\* pd.DataFrame(0.0, index=NUMERIC_RANKS, columns=NUMERIC_RANKS)
Zeros == [row \in Range(NUMERIC_RANKS) |-> [col \in Range(NUMERIC_RANKS) |-> 0]]

\* the row labels, the column labels and the cells of a matrix
Rows(m) == DOMAIN m
Columns(m) == UNION {DOMAIN m[row] : row \in DOMAIN m}
Cells(m) == {<<row, col>> \in Rows(m) \X Columns(m) : col \in DOMAIN m[row]}

\* the value of a cell that an assignment to new labels leaves unset
NaN == -1

\* df.loc[row, col] = value: sets the cell, and adds it when the labels are new
LocSet(m, w) ==
    IF w[1] \in Rows(m) /\ w[2] \in Columns(m)
    THEN [m EXCEPT ![w[1]][w[2]] = w[3]]
    ELSE [row \in Rows(m) \cup {w[1]} |->
             [col \in Columns(m) \cup {w[2]} |->
                 IF row = w[1] /\ col = w[2] THEN w[3]
                 ELSE IF row \in Rows(m) /\ col \in Columns(m) THEN m[row][col]
                 ELSE NaN]]

RECURSIVE ApplyWrites(_, _)
\* the assignments ws to a matrix with these rows and columns, one after the
\* other: a cell holds what the last assignment to it wrote
ApplyEach(m, ws, rows, cols) ==
    IF /\ {ws[k][1] : k \in DOMAIN ws} \subseteq rows
       /\ {ws[k][2] : k \in DOMAIN ws} \subseteq cols
    THEN [row \in rows |-> [col \in cols |->
             LET hits == {k \in DOMAIN ws : ws[k][1] = row /\ ws[k][2] = col}
             IN  IF hits = {} THEN m[row][col] ELSE ws[Max(hits)][3]]]
    ELSE LocSet(ApplyWrites(m, SubSeq(ws, 1, Len(ws) - 1)), ws[Len(ws)])

ApplyWrites(m, ws) == ApplyEach(m, ws, Rows(m), Columns(m))

\* the assignments of one loop: body[k] is what iteration k assigns
Loop(body) == Flatten(body)

\* for rank in ranks: if rank >= least: range_data.loc[rank, rank] = 1.0
PairsFrom(least) ==
    Loop([k \in DOMAIN NUMERIC_RANKS |->
            IF NUMERIC_RANKS[k] >= least
            THEN <<<<NUMERIC_RANKS[k], NUMERIC_RANKS[k], 10>>>> ELSE <<>>])

\* UTG Open, broadway hands: the body of the two loops
UTGOpenBroadway(rank1, rank2) ==
    IF rank1 = rank2 THEN <<>>
    ELSE IF rank1 > rank2 THEN <<<<rank1, rank2, 10>>>>
    ELSE <<<<rank2, rank1, IF rank2 >= 13 THEN 7 ELSE 0>>>>

UTGOpen ==
    LET broadway == Nested(Last(NUMERIC_RANKS, 4), Last(NUMERIC_RANKS, 4))
        aces == <<8, 9, 10, 11>>
    IN  PairsFrom(7)
        \o Loop([k \in DOMAIN broadway |-> UTGOpenBroadway(broadway[k][1], broadway[k][2])])
        \o Loop([k \in DOMAIN aces |-> <<<<14, aces[k], 8>>>>])

MPOpenBroadway(rank1, rank2) ==
    IF rank1 # rank2 /\ rank2 >= 10
    THEN IF rank1 > rank2 THEN <<<<rank1, rank2, 10>>>>
         ELSE <<<<rank2, rank1, IF rank2 >= 12 THEN 8 ELSE 3>>>>
    ELSE <<>>

MPOpen ==
    LET broadway == Nested(Last(NUMERIC_RANKS, 4), Last(NUMERIC_RANKS, 5))
        suited == <<6, 7, 8, 9>>
    IN  PairsFrom(5)
        \o Loop([k \in DOMAIN broadway |-> MPOpenBroadway(broadway[k][1], broadway[k][2])])
        \o Loop([k \in DOMAIN suited |->
                    <<<<14, suited[k], 9>>,
                      <<13, suited[k], IF suited[k] >= 7 THEN 5 ELSE 0>>>>])

COOpenBroadway(rank1, rank2) ==
    IF rank1 = rank2 THEN <<>>
    ELSE IF rank1 > rank2 THEN <<<<rank1, rank2, 10>>>>
    ELSE <<<<rank2, rank1, 9>>>>

COOpen ==
    LET broadway == Nested(Last(NUMERIC_RANKS, 5), Last(NUMERIC_RANKS, 5))
        connectors == PyRange(3, 9)
        aces == <<5, 6, 7, 8, 9>>
    IN  PairsFrom(2)
        \o Loop([k \in DOMAIN broadway |-> COOpenBroadway(broadway[k][1], broadway[k][2])])
        \o Loop([k \in DOMAIN connectors |->
                    LET i == connectors[k]
                    IN  <<<<i + 1, i, 10>>>>
                        \o (IF i < 8 THEN <<<<i + 2, i, 7>>>> ELSE <<>>)])
        \o Loop([k \in DOMAIN aces |-> <<<<14, aces[k], 10>>>>])

BTNOpenCell(rank1, rank2) ==
    IF rank1 = rank2 THEN 10
    ELSE IF rank1 > rank2 THEN (IF rank1 >= 6 \/ rank2 >= 9 THEN 10 ELSE 7)
    ELSE (IF rank1 >= 9 \/ rank2 >= 11 THEN 9 ELSE 5)

BTNOpen ==
    LET all == Nested(NUMERIC_RANKS, NUMERIC_RANKS)
    IN  Loop([k \in DOMAIN all |->
                <<<<all[k][1], all[k][2], BTNOpenCell(all[k][1], all[k][2])>>>>])

SBOpenCell(rank1, rank2) ==
    IF rank1 = rank2 THEN 10
    ELSE IF rank1 > rank2 THEN 10
    ELSE (IF rank1 >= 11 THEN 9 ELSE 6)

SBOpen ==
    LET strong == Nested(Last(NUMERIC_RANKS, 6), Last(NUMERIC_RANKS, 6))
        medium == PyRange(5, 9)
        aces == <<2, 3, 4, 5, 6, 7, 8>>
    IN  Loop([k \in DOMAIN strong |->
                <<<<strong[k][1], strong[k][2], SBOpenCell(strong[k][1], strong[k][2])>>>>])
        \o Loop([k \in DOMAIN medium |-> <<<<medium[k], medium[k], 9>>>>])
        \o Loop([k \in DOMAIN aces |-> <<<<14, aces[k], 8>>>>])

BBCallCell(rank1, rank2) ==
    IF rank1 = rank2 THEN (IF rank1 <= 10 THEN 9 ELSE 3)
    ELSE IF rank1 > rank2 THEN (IF rank1 >= 7 \/ rank2 >= 10 THEN 9 ELSE 6)
    ELSE (IF rank1 >= 10 \/ rank2 >= 12 THEN 7 ELSE 3)

BBCall ==
    LET all == Nested(NUMERIC_RANKS, NUMERIC_RANKS)
    IN  Loop([k \in DOMAIN all |->
                <<<<all[k][1], all[k][2], BBCallCell(all[k][1], all[k][2])>>>>])

BB3BetCell(rank1, rank2) ==
    IF rank1 = rank2 THEN 10
    ELSE IF rank1 > rank2 THEN 9
    ELSE 8

BB3Bet ==
    LET strong == Nested(Last(NUMERIC_RANKS, 3), Last(NUMERIC_RANKS, 3))
        pairs == PyRange(8, 12)
        bluffs == PyRange(4, 9)
    IN  Loop([k \in DOMAIN strong |->
                <<<<strong[k][1], strong[k][2], BB3BetCell(strong[k][1], strong[k][2])>>>>])
        \o Loop([k \in DOMAIN pairs |-> <<<<pairs[k], pairs[k], 8>>>>])
        \o Loop([k \in DOMAIN bluffs |->
                    <<<<bluffs[k] + 1, bluffs[k], 3>>, <<bluffs[k] + 2, bluffs[k], 2>>>>])

DefaultCell(rank1, rank2) ==
    IF rank1 = rank2 THEN (IF rank1 >= 6 THEN 10 ELSE 5)
    ELSE IF rank1 > rank2 THEN (IF rank1 >= 9 \/ rank2 >= 11 THEN 8 ELSE 3)
    ELSE (IF rank1 >= 11 /\ rank2 >= 13 THEN 6 ELSE 0)

DefaultRange ==
    LET all == Nested(NUMERIC_RANKS, NUMERIC_RANKS)
    IN  Loop([k \in DOMAIN all |->
                <<<<all[k][1], all[k][2], DefaultCell(all[k][1], all[k][2])>>>>])

\* the if / elif chain on position and action
BaseWrites(position, action) ==
    IF position = "UTG" /\ action = "Open" THEN UTGOpen
    ELSE IF position = "MP" /\ action = "Open" THEN MPOpen
    ELSE IF position = "CO" /\ action = "Open" THEN COOpen
    ELSE IF position = "BTN" /\ action = "Open" THEN BTNOpen
    ELSE IF position = "SB" /\ action = "Open" THEN SBOpen
    ELSE IF position = "BB" /\ action = "Call" THEN BBCall
    ELSE IF position = "BB" /\ action = "3Bet" THEN BB3Bet
    ELSE DefaultRange

\* the range before the adjustment for the opponent type
BaseRange(position, action) == ApplyWrites(Zeros, BaseWrites(position, action))

\* the same matrices, tabulated: load_range_data reads no state, so every call
\* with the same position and action builds the same matrix
BaseRanges ==
    [position \in {"UTG", "MP", "CO", "BTN", "SB", "BB"} |->
        [action \in {"Open", "Call", "3Bet"} |-> BaseRange(position, action)]]

\* range_data.loc[row, col] + 0.1 * d without the min
RaisedUnclamped(range_data, row, col, d) ==
    <<row, col, range_data[row][col] + d>>

\* adjusted_data.loc[row, col] = min(1.0, range_data.loc[row, col] + 0.1 * d)
Raised(range_data, row, col, d) ==
    <<row, col, Min(10, range_data[row][col] + d)>>

\* adjusted_data.loc[row, col] = max(0.0, range_data.loc[row, col] - 0.1 * d)
Lowered(range_data, row, col, d) ==
    <<row, col, Max({0, range_data[row][col] - d})>>

TightOpen(range_data, rank1, rank2) ==
    IF rank1 > rank2 THEN <<Raised(range_data, rank1, rank2, 2)>> ELSE <<>>

Tight3Bet(range_data, rank1, rank2) ==
    IF rank1 = rank2 THEN <<>>
    ELSE IF rank1 > rank2 THEN <<Raised(range_data, rank1, rank2, 3)>>
    ELSE <<Raised(range_data, rank1, rank2, 2)>>

\* the loop body without `if rank1 != rank2`
LooseOpenPairsIncluded(range_data, rank1, rank2) ==
    IF rank1 > rank2 THEN <<Lowered(range_data, rank1, rank2, 3)>>
    ELSE <<Lowered(range_data, rank1, rank2, 5)>>

LooseOpen(range_data, rank1, rank2) ==
    IF rank1 = rank2 THEN <<>>
    ELSE IF rank1 > rank2 THEN <<Lowered(range_data, rank1, rank2, 3)>>
    ELSE <<Lowered(range_data, rank1, rank2, 5)>>

LooseCall(range_data, rank1, rank2) ==
    IF rank1 # rank2 THEN <<Raised(range_data, rank1, rank2, 2)>> ELSE <<>>

\* for j in range(i+1, min(i+4, 13)): if i+1 == j: ...
PassiveConnectors(range_data, i) ==
    LET js == PyRange(i + 1, Min(i + 4, 13))
    IN  Loop([k \in DOMAIN js |->
                IF i + 1 = js[k] THEN <<Raised(range_data, js[k], i, 3)>> ELSE <<>>])

AggressiveOpen(range_data, rank1, rank2) ==
    IF rank1 > rank2 THEN <<Lowered(range_data, rank1, rank2, 4)>> ELSE <<>>

AggressiveCall(range_data, rank1, rank2) ==
    IF /\ rank1 # rank2
       /\ \/ rank1 > rank2 /\ rank1 <= 11
          \/ rank1 < rank2 /\ rank2 <= 11
    THEN <<Lowered(range_data, rank1, rank2, 3)>> ELSE <<>>

\* the assignments to adjusted_data, each computed from range_data
AdjustWrites(range_data, opponent_type, action) ==
    LET tight_open == Nested(PyRange(7, 12), PyRange(5, 10))
        broadway == Nested(Last(NUMERIC_RANKS, 4), Last(NUMERIC_RANKS, 4))
        loose_open == Nested(PyRange(2, 10), PyRange(2, 8))
        loose_call == Nested(Last(NUMERIC_RANKS, 5), Last(NUMERIC_RANKS, 5))
        passive == PyRange(4, 10)
        aggressive_open == Nested(PyRange(2, 11), PyRange(2, 9))
        all == Nested(NUMERIC_RANKS, NUMERIC_RANKS)
    IN  IF opponent_type = "tight" /\ action = "Open"
        THEN Loop([k \in DOMAIN tight_open |->
                     TightOpen(range_data, tight_open[k][1], tight_open[k][2])])
        ELSE IF opponent_type = "tight" /\ action = "3Bet"
        THEN Loop([k \in DOMAIN broadway |->
                     Tight3Bet(range_data, broadway[k][1], broadway[k][2])])
        ELSE IF opponent_type = "loose" /\ action = "Open"
        THEN Loop([k \in DOMAIN loose_open |->
                     LooseOpen(range_data, loose_open[k][1], loose_open[k][2])])
        ELSE IF opponent_type = "loose" /\ action = "Call"
        THEN Loop([k \in DOMAIN loose_call |->
                     LooseCall(range_data, loose_call[k][1], loose_call[k][2])])
        ELSE IF opponent_type = "passive" /\ action \in {"Open", "3Bet"}
        THEN Loop([k \in DOMAIN passive |-> PassiveConnectors(range_data, passive[k])])
        ELSE IF opponent_type = "aggressive" /\ action = "Open"
        THEN Loop([k \in DOMAIN aggressive_open |->
                     AggressiveOpen(range_data, aggressive_open[k][1],
                                    aggressive_open[k][2])])
        ELSE IF opponent_type = "aggressive" /\ action = "Call"
        THEN Loop([k \in DOMAIN all |->
                     AggressiveCall(range_data, all[k][1], all[k][2])])
        ELSE <<>>

\* range_data after the call: adjusted_data is range_data.copy(), so the
\* assignments to it leave range_data alone
RangeAfterAdjust(range_data, adjusted_data) == range_data

adjust_for_opponent_type(range_data, opponent_type, position, action) ==
    ApplyWrites(range_data, AdjustWrites(range_data, opponent_type, action))

load_range_data(position, action, opponent_type) ==
    IF opponent_type # "standard"
    THEN adjust_for_opponent_type(BaseRanges[position][action], opponent_type,
                                  position, action)
    ELSE BaseRanges[position][action]

-----------------------------------------------------------------------------
(* app.py: the frequency of a hand, in the simulation tab and in the quiz   *)

\* range_data.loc[row, col]
Loc(m, row, col) ==
    IF row \in Rows(m) /\ col \in Columns(m)
    THEN [ok |-> TRUE, value |-> m[row][col]]
    ELSE [ok |-> FALSE, value |-> 0]

\* quiz_range_data.iloc[row, col]: positions 0..12 of the rows and columns
ILoc(m, row, col) ==
    IF row \in 0..(Len(NUMERIC_RANKS) - 1) /\ col \in 0..(Len(NUMERIC_RANKS) - 1)
    THEN [ok |-> TRUE, value |-> m[NUMERIC_RANKS[row + 1]][NUMERIC_RANKS[col + 1]]]
    ELSE [ok |-> FALSE, value |-> 0]

\* row_idx, col_idx of the simulation tab
MatrixIndex(rank1, suit1, rank2, suit2) ==
    IF rank1 = rank2 THEN <<RANK_TO_NUM(rank1), RANK_TO_NUM(rank1)>>
    ELSE LET rank1_num == RANK_TO_NUM(rank1)
             rank2_num == RANK_TO_NUM(rank2)
         IN  IF suit1 = suit2
             THEN (IF rank1_num > rank2_num THEN <<rank1_num, rank2_num>>
                   ELSE <<rank2_num, rank1_num>>)
             ELSE (IF rank1_num > rank2_num THEN <<rank2_num, rank1_num>>
                   ELSE <<rank1_num, rank2_num>>)

\* row_idx, col_idx of the quiz
QuizMatrixIndex(quiz_rank1, quiz_suit1, quiz_rank2, quiz_suit2) ==
    IF quiz_rank1 = quiz_rank2
    THEN <<RANK_TO_NUM(quiz_rank1), RANK_TO_NUM(quiz_rank1)>>
    ELSE LET rank1_num == RANK_TO_NUM(quiz_rank1)
             rank2_num == RANK_TO_NUM(quiz_rank2)
         IN  IF quiz_suit1 = quiz_suit2
             THEN (IF rank1_num > rank2_num THEN <<rank1_num, rank2_num>>
                   ELSE <<rank2_num, rank1_num>>)
             ELSE (IF rank1_num > rank2_num THEN <<rank2_num, rank1_num>>
                   ELSE <<rank1_num, rank2_num>>)

Positions == {"UTG", "MP", "CO", "BTN", "SB", "BB"}
Actions == {"Open", "Call", "3Bet"}
OpponentTypes == {"standard", "tight", "loose", "passive", "aggressive"}

\* the two cards of the select boxes: any two ranks, of one suit or of two
HandInputs ==
    {h \in Range(DISPLAY_RANKS) \X {"SPADE"} \X Range(DISPLAY_RANKS) \X {"SPADE", "HEART"} :
        ~(h[1] = h[3] /\ h[2] = h[4])}

InitRange ==
    /\ NoCall
    /\ calls = Idle /\ cells = Idle /\ showdown = Idle
    /\ quiz = Idle /\ conv = Idle
    /\ \E position \in Positions, action \in Actions, opponent_type \in OpponentTypes :
          heat = [pc |-> "call", position |-> position, action |-> action,
                  opponent_type |-> opponent_type,
                  base |-> <<>>, argument |-> <<>>, range_data |-> <<>>,
                  hand |-> <<>>, frequency |-> 0, std_frequency |-> 0,
                  quiz_frequency |-> 0, exception |-> "none"]

\* range_data = load_range_data(position, action, opponent_type)
LoadRangeData ==
    /\ heat.pc = "call"
    /\ \E base \in {BaseRange(heat.position, heat.action)} :
       \E adjusted \in {IF heat.opponent_type # "standard"
                        THEN adjust_for_opponent_type(base, heat.opponent_type,
                                                      heat.position, heat.action)
                        ELSE base} :
          heat' = [heat EXCEPT !.pc = "loaded",
                               !.base = base,
                               !.argument = RangeAfterAdjust(base, adjusted),
                               !.range_data = adjusted]
    /\ UNCHANGED <<call_vars, calls, cells, showdown, quiz, conv>>

\* the hand analysis of the simulation tab for the selected hand
HandAnalysis(h) ==
    /\ heat.pc = "loaded"
    /\ \E idx \in {MatrixIndex(h[1], h[2], h[3], h[4])} :
       \E frequency \in {Loc(heat.range_data, idx[1], idx[2])} :
       \E std_range_data \in {load_range_data(heat.position, heat.action, "standard")} :
       \E std_frequency \in {Loc(std_range_data, idx[1], idx[2])} :
          heat' = [heat EXCEPT !.pc = "analysed",
                               !.hand = h,
                               !.frequency = frequency.value,
                               !.std_frequency = std_frequency.value,
                               !.exception =
                                   IF frequency.ok /\ std_frequency.ok
                                   THEN "none" ELSE "KeyError (caught)"]
    /\ UNCHANGED <<call_vars, calls, cells, showdown, quiz, conv>>

\* the quiz answer check for the same scenario and the same hand
QuizAnswerCheck ==
    /\ heat.pc = "analysed"
    /\ \E h \in {heat.hand} :
       \E idx \in {QuizMatrixIndex(h[1], h[2], h[3], h[4])} :
       \E frequency \in {ILoc(heat.range_data, idx[1], idx[2])} :
          heat' = [heat EXCEPT !.pc = "checked",
                               !.quiz_frequency = frequency.value,
                               !.exception =
                                   IF frequency.ok THEN "none" ELSE "IndexError"]
    /\ UNCHANGED <<call_vars, calls, cells, showdown, quiz, conv>>

NextRange ==
    \/ LoadRangeData
    \/ \E h \in HandInputs : HandAnalysis(h)
    \/ QuizAnswerCheck

SpecRange == InitRange /\ [][NextRange]_vars

\* load_range_data for every position, action and opponent type of the page
RangeTable ==
    [position \in Positions |-> [action \in Actions |-> [opponent_type \in OpponentTypes |->
        load_range_data(position, action, opponent_type)]]]

-----------------------------------------------------------------------------
(* app.py, quiz tab: st.session_state over the runs of the script           *)

\* the draws of random.choice(ranks) and random.choice(suits) that are followed
NumQuizRanks == 3
NumQuizSuits == 2
QuizRanks ==
    SubSeq(<<"A", "K", "Q", "J", "T", "9", "8", "7", "6", "5", "4", "3", "2">>,
           1, NumQuizRanks)
QuizSuits == SubSeq(SuitSymbols, 1, NumQuizSuits)
\* a key that is not in st.session_state
Absent == <<>>

QuizScenarios == Positions \X Actions \X OpponentTypes
QuizDraws == Range(QuizRanks) \X Range(QuizSuits) \X Range(QuizRanks) \X Range(QuizSuits)

\* the while condition with the suits compared for difference
SameCardNever(rank1, suit1, rank2, suit2) == rank1 = rank2 /\ suit1 # suit2

\* while rank1 == rank2 and suit1 == suit2
SameCard(rank1, suit1, rank2, suit2) == rank1 = rank2 /\ suit1 = suit2

\* st.button(label): true in the run that a click on this button started
Button(q, label) == q.trigger = label

\* what started a run: the first load of the page, another widget (the radio),
\* or one of the two buttons, when the last run put it on the page
Triggers(q) ==
    IF q.pc = "start" THEN {q.trigger}
    ELSE {"none", "check"} \cup (IF q.new_button THEN {"new"} ELSE {})

\* the script from the display of the hand to its end
QuizPage(q) ==
    IF Button(q, "check")
    THEN LET idx == QuizMatrixIndex(q.hand[1], q.hand[2], q.hand[3], q.hand[4])
             quiz_range_data == RangeTable[q.scenario[1]][q.scenario[2]][q.scenario[3]]
             frequency == ILoc(quiz_range_data, idx[1], idx[2])
         IN  IF ~frequency.ok
             THEN [q EXCEPT !.pc = "idle", !.new_button = FALSE,
                            !.exception = "IndexError"]
             ELSE IF Button(q, "new")
             THEN [q EXCEPT !.pc = "start", !.trigger = "rerun", !.new_button = FALSE,
                            !.scenario = Absent, !.hand = Absent, !.exception = "none"]
             ELSE [q EXCEPT !.pc = "idle", !.new_button = TRUE, !.exception = "none"]
    ELSE [q EXCEPT !.pc = "idle", !.new_button = FALSE, !.exception = "none"]

InitQuiz ==
    /\ NoCall
    /\ calls = Idle /\ cells = Idle /\ showdown = Idle
    /\ heat = Idle /\ conv = Idle
    /\ quiz = [pc |-> "start", trigger |-> "start",
               scenario |-> Absent, hand |-> Absent, draw |-> <<>>,
               at_start |-> <<Absent, Absent>>, pending_new |-> FALSE,
               redrawn |-> FALSE, new_button |-> FALSE, exception |-> "none"]

\* a run of the script up to the while loop, and to its end when the hand is
\* in the session state already
QuizRun(t) ==
    /\ quiz.pc \in {"start", "idle"}
    /\ t \in Triggers(quiz)
    /\ \E scenario \in (IF quiz.scenario = Absent THEN QuizScenarios ELSE {quiz.scenario}) :
       \E draw \in (IF quiz.hand = Absent THEN QuizDraws ELSE {<<>>}) :
       \E q \in {[quiz EXCEPT !.trigger = t,
                              !.at_start = <<quiz.scenario, quiz.hand>>,
                              !.pending_new = quiz.pending_new \/ t = "new",
                              !.scenario = scenario,
                              !.draw = draw,
                              !.redrawn = FALSE]} :
          quiz' = IF quiz.hand = Absent THEN [q EXCEPT !.pc = "loop"] ELSE QuizPage(q)
    /\ UNCHANGED <<call_vars, calls, cells, showdown, heat, conv>>

\* one iteration of the while loop
QuizRedraw(rank2, suit2) ==
    /\ quiz.pc = "loop"
    /\ SameCard(quiz.draw[1], quiz.draw[2], quiz.draw[3], quiz.draw[4])
    /\ quiz' = [quiz EXCEPT !.draw = <<quiz.draw[1], quiz.draw[2], rank2, suit2>>,
                            !.redrawn = TRUE]
    /\ UNCHANGED <<call_vars, calls, cells, showdown, heat, conv>>

\* the exit of the loop: the hand goes into the session state, and the script
\* runs to its end
QuizStoreHand ==
    /\ quiz.pc = "loop"
    /\ ~SameCard(quiz.draw[1], quiz.draw[2], quiz.draw[3], quiz.draw[4])
    /\ quiz' = QuizPage([quiz EXCEPT !.hand = quiz.draw, !.pending_new = FALSE])
    /\ UNCHANGED <<call_vars, calls, cells, showdown, heat, conv>>

NextQuiz ==
    \/ \E t \in {"start", "rerun", "none", "check", "new"} : QuizRun(t)
    \/ \E rank2 \in Range(QuizRanks), suit2 \in Range(QuizSuits) : QuizRedraw(rank2, suit2)
    \/ QuizStoreHand

\* random.choice is fair: it does not return the card of the first draw for
\* ever, and the script runs on
QuizFairness ==
    /\ WF_vars(\E rank2 \in Range(QuizRanks), suit2 \in Range(QuizSuits) :
                  QuizRedraw(rank2, suit2))
    /\ WF_vars(QuizStoreHand)

SpecQuiz == InitQuiz /\ [][NextQuiz]_vars /\ QuizFairness

-----------------------------------------------------------------------------
(* poker_utils.py: card_to_treys and back with treys_to_card                *)

\* Card.int_to_str(card_int): the rank character and the suit character
CardIntToStr(card_int) ==
    <<STR_RANKS[(card_int \div 4) - 1], SuitChars[(card_int % 4) + 1]>>

\* SUIT_MAP_REVERSE left out: the suit character itself
SuitCharKept(suit_char) == suit_char

\* SUIT_MAP_REVERSE.get(suit_char, suit_char)
SUIT_MAP_REVERSE_get(suit_char) ==
    IF suit_char \in Range(SuitChars) THEN SuitSymbols[IndexOf(SuitChars, suit_char)]
    ELSE suit_char

treys_to_card(card_int) ==
    IF card_int = None THEN <<None, None>>
    ELSE LET card_str == CardIntToStr(card_int)
         IN  <<card_str[1], SUIT_MAP_REVERSE_get(card_str[2])>>

\* the ranks and suits given to card_to_treys: a rank or none, a suit symbol,
\* a suit letter or none
ConversionInputs ==
    (Range(STR_RANKS) \cup {""}) \X (Range(SuitSymbols) \cup Range(SuitChars) \cup {""})

InitConversion ==
    /\ NoCall
    /\ calls = Idle /\ cells = Idle /\ showdown = Idle
    /\ heat = Idle /\ quiz = Idle
    /\ \E input \in ConversionInputs :
          conv = [pc |-> "input", rank |-> input[1], suit |-> input[2],
                  card_int |-> None, card |-> <<>>]

\* card_int = card_to_treys(rank, suit)
CardToTreys ==
    /\ conv.pc = "input"
    /\ conv' = [conv EXCEPT !.pc = "converted",
                            !.card_int = card_to_treys(conv.rank, conv.suit)]
    /\ UNCHANGED <<call_vars, calls, cells, showdown, heat, quiz>>

\* rank, suit = treys_to_card(card_int)
TreysToCard ==
    /\ conv.pc = "converted"
    /\ conv' = [conv EXCEPT !.pc = "back", !.card = treys_to_card(conv.card_int)]
    /\ UNCHANGED <<call_vars, calls, cells, showdown, heat, quiz>>

NextConversion == CardToTreys \/ TreysToCard

SpecConversion == InitConversion /\ [][NextConversion]_vars

-----------------------------------------------------------------------------
(* Vocabulary of the properties *)

\* a trial has completed and its locals are those of the last trial
TrialDone == pc \in {"loop", "done"} /\ trials > 0

\* the step is a completed trial
TrialStep == trials' = trials + 1

\* the call returned numbers computed from trials
Estimated == pc = "done" /\ result.error = ""

Beats(a, b) == a < b

SomeOpponentTies == \E i \in DOMAIN opponent_scores : opponent_scores[i] = player_score
SomeOpponentBetter ==
    \E i \in DOMAIN opponent_scores : Beats(opponent_scores[i], player_score)
BetterThanAll ==
    \A i \in DOMAIN opponent_scores : Beats(player_score, opponent_scores[i])

HoleSpecified ==
    /\ Specified(card1_rank) /\ Specified(card1_suit)
    /\ Specified(card2_rank) /\ Specified(card2_suit)

\* the specified board slots, as (rank, suit) pairs
BoardSlots == SpecifiedBoard(board_ranks, board_suits)

\* the same (rank, suit) as both hole cards, or a specified board card equal
\* to a hole card or to another specified board card
DuplicateInput ==
    \/ <<card1_rank, card1_suit>> = <<card2_rank, card2_suit>>
    \/ \E i \in DOMAIN BoardSlots :
          \/ BoardSlots[i] = <<card1_rank, card1_suit>>
          \/ BoardSlots[i] = <<card2_rank, card2_suit>>
          \/ \E k \in DOMAIN BoardSlots : k # i /\ BoardSlots[k] = BoardSlots[i]

\* the cards drawn by the last trial: the completion of the board and the
\* opponents' hands
KnownCount == Len(KnownBoard(board_cards))
DrawnBoard == SubSeq(current_board, KnownCount + 1, Len(current_board))
DrawnOpponents ==
    UNION {Range(opponents_hole_cards[i]) : i \in DOMAIN opponents_hole_cards}
KnownCards == Range(hole_cards) \cup Range(KnownBoard(board_cards))

InUnit(x) == FracLeq(Zero, x) /\ FracLeq(x, One)

-----------------------------------------------------------------------------
(* Properties of the equity estimate *)

\* C1: for num_simulations >= 1 the returned win, tie and loss sum to 1, and
\* the trials counted as win, as tie and as neither add up to num_simulations.
C1_ProbabilitiesSumToOne ==
    (Estimated /\ num_simulations >= 1) =>
        /\ FracEq(FracAdd(FracAdd(result.win, result.tie), result.loss), One)
        /\ wins + ties + losses = num_simulations

C1_Witness ==
    /\ Estimated /\ num_opponents \in 1..MaxOpponents
    /\ wins > 0 /\ ties > 0 /\ losses > 0

\* C2: a trial is counted as a win exactly when the player's score is strictly
\* better (lower) than the score of every opponent of that trial.
C2_WinIffBetterThanAll ==
    [][TrialStep => ((wins' = wins + 1) <=> BetterThanAll')]_vars

C2_Witness ==
    /\ TrialDone /\ num_opponents >= 2
    /\ outcome = "win" /\ wins > 0 /\ BetterThanAll

\* C3: a trial is counted as a tie exactly when the player's score equals some
\* opponent's and no opponent's is better; a trial in which some opponent's
\* score is strictly better is counted neither as win nor as tie.
C3_TieIffEqualAndNotBeaten ==
    [][(TrialStep /\ num_opponents \in 1..MaxOpponents) =>
          /\ (ties' = ties + 1) <=> (SomeOpponentTies' /\ ~SomeOpponentBetter')
          /\ SomeOpponentBetter' => (wins' = wins /\ ties' = ties)]_vars

\* C4: a trial in which the player's score equals the score of some opponent is
\* counted as a tie, also when another opponent has a strictly better score.
C4_TieOnAnyEqualScore ==
    [][(TrialStep /\ SomeOpponentTies') => (ties' = ties + 1 /\ wins' = wins)]_vars

C4_Witness ==
    /\ TrialDone /\ outcome = "tie" /\ ties > 0
    /\ SomeOpponentTies /\ SomeOpponentBetter

\* C5 as stated: a call with a duplicate card returns the duplicate-card error
\* and runs no trial.
C5_DuplicateAlwaysDuplicateError ==
    (DuplicateInput /\ pc # "call") =>
        /\ pc = "done" /\ result.error = DUPLICATE_ERROR
        /\ trials = 0 /\ deck = <<>>

\* C5 amended: a call with a duplicate card runs no trial and returns the
\* duplicate-card error when both hole cards are specified, the
\* missing-hole-card error when one of them is not.
C5_DuplicateRejected ==
    (DuplicateInput /\ pc # "call") =>
        /\ pc = "done" /\ trials = 0 /\ deck = <<>>
        /\ result.error = IF HoleSpecified THEN DUPLICATE_ERROR ELSE HOLE_CARD_ERROR

C5_Witness ==
    /\ pc = "done" /\ result.error = DUPLICATE_ERROR /\ trials = 0
    /\ HoleSpecified /\ <<card1_rank, card1_suit>> # <<card2_rank, card2_suit>>
    /\ DuplicateInput /\ num_simulations >= 1

\* C6: a call with an empty rank or suit of either hole card returns the
\* missing-hole-card error before any trial, whatever the other arguments.
C6_MissingHoleCardRejected ==
    (~HoleSpecified /\ pc # "call") =>
        /\ pc = "done" /\ result.error = HOLE_CARD_ERROR
        /\ trials = 0 /\ deck = <<>> /\ exception = "none"

C6_Witness ==
    /\ pc = "done" /\ result.error = HOLE_CARD_ERROR
    /\ Specified(card1_rank) /\ Specified(card1_suit) /\ ~Specified(card2_suit)
    /\ DuplicateInput /\ num_opponents = 0 /\ num_simulations = 0

\* C7: a returned result that carries an error has win = tie = loss = 0 and
\* no trial ran; a result returned after trials ran carries no error.
C7_ErrorMeansZeroesAndNoTrial ==
    pc = "done" =>
        /\ result.error # "" =>
              /\ result.win = Zero /\ result.tie = Zero /\ result.loss = Zero
              /\ trials = 0 /\ deck = <<>>
        /\ trials > 0 => result.error = ""

C7_Witness ==
    /\ pc = "done" /\ result.error # "" /\ result.loss = Zero
    /\ HoleSpecified /\ num_simulations = MaxSims /\ num_opponents = MaxOpponents

\* C8: with k known board cards a trial draws 5 - k board cards and two cards
\* for every opponent; the drawn cards are pairwise distinct, none of them is
\* a hole card or a known board card, and they are gone from the deck.
C8_BoardCompletion ==
    TrialDone =>
        LET drawn == Range(DrawnBoard) \cup DrawnOpponents
        IN  /\ Len(current_board) = BoardSize
            /\ SubSeq(current_board, 1, KnownCount) = KnownBoard(board_cards)
            /\ Len(DrawnBoard) = BoardSize - KnownCount
            /\ Len(opponents_hole_cards) = num_opponents
            /\ \A i \in DOMAIN opponents_hole_cards :
                  Len(opponents_hole_cards[i]) = HoleSize
            /\ Cardinality(drawn) = (BoardSize - KnownCount) + HoleSize * num_opponents
            /\ drawn \cap KnownCards = {}
            /\ drawn \cap Range(deck) = {}
            /\ Len(deck) = Len(FullDeck) - Cardinality(KnownCards) - Cardinality(drawn)

C8_Witness ==
    /\ TrialDone /\ KnownCount = 2 /\ ~Specified(board_ranks[1])
    /\ num_opponents = 3 /\ Len(DrawnBoard) = 3
    /\ Cardinality(DrawnOpponents) = 6

\* C9: the counters satisfy 0 <= wins, 0 <= ties and wins + ties <= trials at
\* every point of the loop, and for num_simulations >= 1 each of the returned
\* win, tie and loss lies in [0, 1].
C9_ProbabilitiesInUnitInterval ==
    /\ wins >= 0 /\ ties >= 0 /\ wins + ties <= trials
    /\ (Estimated /\ num_simulations >= 1) =>
          InUnit(result.win) /\ InUnit(result.tie) /\ InUnit(result.loss)

C9_Witness ==
    /\ Estimated /\ num_simulations = MaxSims
    /\ wins > 0 /\ ties > 0 /\ wins + ties = trials

\* C10: for 1..8 opponents and 0..5 known board cards no draw asks for more
\* cards than the deck holds: when the draws start the deck of 52 minus the
\* known cards holds at least (5 - k) + 2 * num_opponents cards.
C10_DeckNeverExhausted ==
    num_opponents \in 1..MaxOpponents =>
        /\ exception # "IndexError"
        /\ pc = "loop" =>
              Len(FullDeck) - Cardinality(KnownCards)
                  >= RemainingBoard(board_cards) + HoleSize * num_opponents
        /\ TrialDone =>
              Len(deck) = Len(FullDeck) - Cardinality(KnownCards)
                              - RemainingBoard(board_cards) - HoleSize * num_opponents

C10_Witness ==
    /\ TrialDone /\ num_opponents = MaxOpponents /\ KnownCount = 0
    /\ trials = MaxSims
    /\ Len(deck) = Len(FullDeck) - HoleSize - BoardSize - HoleSize * MaxOpponents

\* the number of board slots with both a rank and a suit
SpecifiedCount ==
    Cardinality({i \in DOMAIN board_ranks :
                    Specified(board_ranks[i]) /\ Specified(board_suits[i])})

\* monte_carlo_simulation was entered
Entered == pc \in {"loop", "raised"} \/ Estimated

\* every card the last trial drew
DrawnCards == Range(DrawnBoard) \cup DrawnOpponents

\* C11 as stated: every failing path (missing hole card, duplicate card, failed
\* draw, failed removal, non-positive trial count) ends in a returned result
\* that carries an error; no exception leaves the call.
C11_EveryFailureReturnsError ==
    /\ pc # "raised"
    /\ (pc = "done" /\ (~HoleSpecified \/ DuplicateInput \/ num_simulations <= 0))
          => result.error \notin {"", NoResult.error}

\* C12: a board slot with an empty rank or suit is no card: the board passed
\* to the simulation holds one card per fully specified slot, the duplicate
\* error is returned only for a duplicate among specified cards, and the deck
\* of a trial is reduced by the specified cards only.
C12_UnspecifiedSlotIsNoCard ==
    /\ Entered =>
          /\ Len(board_cards) = SpecifiedCount
          /\ \A i \in DOMAIN board_cards : IsCard(board_cards[i])
    /\ (pc = "done" /\ result.error = DUPLICATE_ERROR) => DuplicateInput
    /\ TrialDone =>
          Len(deck) + Cardinality(DrawnCards)
              = Len(FullDeck) - Len(hole_cards) - SpecifiedCount

C12_Witness ==
    /\ TrialDone /\ Len(board_cards) = 1
    /\ board_ranks[1] = "7" /\ ~Specified(board_suits[1])
    /\ board_ranks[2] = "7" /\ ~Specified(board_suits[2])

\* C13: every trial starts from the 52 cards minus the hole cards and the
\* known board cards: what the trial drew and what it left are together
\* exactly those 52 - 2 - k cards, in the first trial and in every later one.
C13_FreshDeckEveryTrial ==
    TrialDone =>
        /\ Range(deck) \cup DrawnCards = Range(FullDeck) \ KnownCards
        /\ Len(deck) + Cardinality(DrawnCards)
              = Len(FullDeck) - Len(hole_cards) - KnownCount

\* the trials so far drew more cards than a deck holds: one was drawn twice
C13_Witness ==
    /\ TrialDone /\ num_opponents = MaxOpponents /\ KnownCount = 0
    /\ trials * Cardinality(DrawnCards) > Len(FullDeck) - Len(hole_cards)
    /\ Range(deck) \cup DrawnCards = Range(FullDeck) \ KnownCards

C17_ResultOnlyAfterAllTrials ==
    /\ Estimated =>
          /\ trials >= num_simulations
          /\ num_simulations >= 0 => trials = num_simulations
    /\ pc = "raised" => result = NoResult

C17_Witness ==
    /\ Estimated /\ num_simulations = MaxSims /\ trials = MaxSims
    /\ losses = MaxSims

\* C18 as stated: a call with num_simulations <= 0 returns no win/tie/loss
\* numbers: what it returns, if anything, carries an error.
C18_NonPositiveCountRejected ==
    (num_simulations <= 0 /\ pc = "done") => result.error # ""

\* C20: in every trial the evaluated board has 5 cards, the player's and every
\* opponent's score are computed on that board, and each evaluated hand is 7
\* pairwise distinct cards.
C20_EvaluatedHandsWellFormed ==
    TrialDone =>
        /\ Len(current_board) = BoardSize
        /\ Cardinality(Range(current_board) \cup Range(hole_cards))
              = BoardSize + HoleSize
        /\ player_score = evaluate(current_board, hole_cards)
        /\ Len(opponent_scores) = Len(opponents_hole_cards)
        /\ \A i \in DOMAIN opponents_hole_cards :
              /\ Cardinality(Range(current_board) \cup Range(opponents_hole_cards[i]))
                    = BoardSize + HoleSize
              /\ opponent_scores[i] = evaluate(current_board, opponents_hole_cards[i])

C20_Witness ==
    /\ TrialDone /\ KnownCount = 3 /\ num_opponents = MaxOpponents
    /\ Len(opponent_scores) = MaxOpponents
    /\ Cardinality(Range(current_board) \cup Range(hole_cards)) = BoardSize + HoleSize

-----------------------------------------------------------------------------
(* Two interleaved calls *)

\* how often x occurs in s
Count(s, x) == Cardinality({i \in DOMAIN s : s[i] = x})

\* the counters call c reads and updates
Counted(c) == cells[CounterCell(c)]

\* the cards the last trial of call c drew
PairDrawn(c) ==
    LET f == calls[c]
        known == Len(KnownBoard(f.board_cards))
    IN  {f.current_board[i] : i \in (known + 1)..Len(f.current_board)}
        \cup UNION {Range(f.opponents_hole_cards[i]) :
                        i \in DOMAIN f.opponents_hole_cards}

PairKnown(c) == Range(calls[c].hole_cards) \cup Range(calls[c].board_cards)

SameArguments(c, d) ==
    /\ calls[c].hole_cards = calls[d].hole_cards
    /\ calls[c].board_cards = calls[d].board_cards
    /\ calls[c].num_opponents = calls[d].num_opponents
    /\ calls[c].num_simulations = calls[d].num_simulations

\* C15: with the trials of two calls interleaved in any order, the wins and
\* ties of each call count its own trials only, the cards a trial draws come
\* from the deck of its own call, and each call returns win + tie + loss = 1
\* over its own num_simulations.
C15_InterleavedCallsIndependent ==
    \A c \in Callers :
        /\ calls[c].pc \in {"loop", "done"} =>
              /\ Counted(c).wins = Count(calls[c].outcomes, "win")
              /\ Counted(c).ties = Count(calls[c].outcomes, "tie")
              /\ Counted(c).wins + Counted(c).ties + calls[c].losses = calls[c].trials
        /\ calls[c].trials > 0 =>
              /\ PairDrawn(c) \cap PairKnown(c) = {}
              /\ PairDrawn(c) \cap Range(calls[c].deck) = {}
              /\ Range(calls[c].deck) \cup PairDrawn(c)
                    = Range(FullDeck) \ PairKnown(c)
        /\ calls[c].pc = "done" =>
              /\ calls[c].trials = calls[c].num_simulations
              /\ calls[c].result.win
                    = Div(Count(calls[c].outcomes, "win"), calls[c].num_simulations)
              /\ calls[c].result.tie
                    = Div(Count(calls[c].outcomes, "tie"), calls[c].num_simulations)
              /\ FracEq(FracAdd(FracAdd(calls[c].result.win, calls[c].result.tie),
                                calls[c].result.loss), One)

\* both calls are in their loops, each after a trial, with different counts
C15_Witness ==
    /\ \A c \in Callers : calls[c].pc = "loop" /\ calls[c].trials >= 1
    /\ calls[1].trials < calls[1].num_simulations
    /\ Counted(1).wins = 1 /\ Counted(2).wins = 0
    /\ calls[2].outcomes # calls[1].outcomes

-----------------------------------------------------------------------------
(* The order of the hand scores *)

\* tuple a is above tuple b at the first position where they differ
LexAbove(a, b) ==
    \E i \in DOMAIN a \cap DOMAIN b :
        /\ a[i] > b[i]
        /\ \A k \in 1..(i - 1) : a[k] = b[k]

\* the hand of the table with these five cards, as (rank, suit) pairs
HandOf(c) == CHOOSE i \in DOMAIN SampleHands :
                SampleHands[i].board \o SampleHands[i].hand
                    = [k \in 1..Len(c) |-> card_to_treys(c[k][1], c[k][2])]

RoyalFlush == HandOf(<<<<"A", "SPADE">>, <<"K", "SPADE">>, <<"Q", "SPADE">>,
                       <<"J", "SPADE">>, <<"T", "SPADE">>>>)
FourKings == HandOf(<<<<"K", "DIAMOND">>, <<"K", "HEART">>, <<"K", "CLUB">>,
                      <<"K", "SPADE">>, <<"2", "DIAMOND">>>>)
TwosFullOfFives == HandOf(<<<<"2", "SPADE">>, <<"2", "HEART">>, <<"2", "DIAMOND">>,
                            <<"5", "CLUB">>, <<"5", "DIAMOND">>>>)
NinesAndFours == HandOf(<<<<"9", "SPADE">>, <<"9", "HEART">>, <<"4", "DIAMOND">>,
                          <<"4", "CLUB">>, <<"K", "SPADE">>>>)
AcesAndKings == HandOf(<<<<"A", "SPADE">>, <<"A", "HEART">>, <<"K", "DIAMOND">>,
                         <<"K", "HEART">>, <<"2", "CLUB">>>>)
AcesAndQueens == HandOf(<<<<"A", "DIAMOND">>, <<"A", "CLUB">>, <<"Q", "HEART">>,
                          <<"Q", "DIAMOND">>, <<"3", "SPADE">>>>)

LiteralPairs == {<<RoyalFlush, FourKings>>, <<TwosFullOfFives, NinesAndFours>>,
                 <<AcesAndKings, AcesAndQueens>>}

\* C19: the score orders hands by category first and by the tie-break ranks
\* second: a hand of a better category, or of the same category with higher
\* tie-break ranks, has the strictly better score and wins the comparison of a
\* trial; hands equal in both have equal scores; in particular the royal flush
\* is above four kings, twos full of fives above nines and fours, and aces and
\* kings above aces and queens.
C19_ScoreOrdersByCategoryThenTieBreak ==
    showdown.pc = "scored" =>
        LET a == SampleHands[showdown.first]
            b == SampleHands[showdown.second]
            above == \/ a.category < b.category
                     \/ a.category = b.category /\ LexAbove(a.tie_break, b.tie_break)
            level == a.category = b.category /\ a.tie_break = b.tie_break
        IN  /\ above => /\ Beats(showdown.scores[1], showdown.scores[2])
                        /\ showdown.outcome = "win"
            /\ level => /\ showdown.scores[1] = showdown.scores[2]
                        /\ showdown.outcome = "tie"
            /\ <<showdown.first, showdown.second>> \in LiteralPairs => above

C19_Witness ==
    /\ showdown.pc = "scored"
    /\ showdown.first = AcesAndKings /\ showdown.second = AcesAndQueens
    /\ showdown.outcome = "win"

-----------------------------------------------------------------------------
(* Inputs that reach the simulation *)

\* C21 as stated: whenever monte_carlo_simulation is entered, the cards of
\* hole_cards + board_cards are pairwise distinct and no removal of a known
\* card from the fresh deck fails.
C21_KnownCardsDistinctAtEntry ==
    Entered =>
        /\ NoDuplicates(hole_cards \o board_cards)
        /\ exception # "ValueError"

\* C22 as stated: monte_carlo_simulation returns no estimate for
\* num_opponents = 0.
C22_NoEstimateWithoutOpponent ==
    num_opponents = 0 => ~Estimated

\* C23: with one opponent a trial is a win iff the player's score is better,
\* a tie iff the two scores are equal and a loss iff the opponent's score is
\* better.
C23_TrichotomyWithOneOpponent ==
    (TrialDone /\ num_opponents = 1) =>
        /\ Len(opponent_scores) = 1
        /\ outcome = "win" <=> Beats(player_score, opponent_scores[1])
        /\ outcome = "tie" <=> player_score = opponent_scores[1]
        /\ outcome = "loss" <=> Beats(opponent_scores[1], player_score)

C23_Witness ==
    /\ TrialDone /\ num_opponents = 1
    /\ outcome = "tie" /\ player_score = opponent_scores[1]
    /\ wins > 0 /\ losses > 0


-----------------------------------------------------------------------------
(* the range matrices and their lookups                                     *)

Loaded == heat # Idle /\ heat.pc # "call"
Analysed == heat # Idle /\ heat.pc \in {"analysed", "checked"}
Checked == heat # Idle /\ heat.pc = "checked"

\* a matrix of 13 x 13 cells, each a frequency between 0.0 and 1.0 (in tenths)
FrequencyMatrix(m) ==
    /\ Cardinality(Cells(m)) = 169
    /\ \A cell \in Cells(m) : m[cell[1]][cell[2]] \in 0..10

Suited(h) == h[1] # h[3] /\ h[2] = h[4]
Offsuit(h) == h[1] # h[3] /\ h[2] # h[4]
Broadway(h) == {h[1], h[3]} \subseteq {"A", "K", "Q", "J"}
HigherRank(h) == Max({RANK_TO_NUM(h[1]), RANK_TO_NUM(h[3])})
Diagonal(m) == [rank \in Rows(m) \cap Columns(m) |-> m[rank][rank]]

\* C24: for every position, action and opponent type, each of the 169 cells of
\* the matrix load_range_data returns is a frequency in [0,1], before the
\* adjustment for the opponent type and after it
C24_FrequenciesInUnitInterval ==
    Loaded => FrequencyMatrix(heat.base) /\ FrequencyMatrix(heat.range_data)

\* an adjustment that ran into both ends of the interval: a cell at 1.0 stayed
\* there although the opponent type raises it, or one at 0.0 although lowered
C24_Witness ==
    /\ Loaded
    /\ heat.opponent_type = "tight" /\ heat.action = "Open"
    /\ \E rank1 \in 7..11, rank2 \in 5..9 :
          /\ rank1 > rank2
          /\ heat.base[rank1][rank2] = 10 /\ heat.range_data[rank1][rank2] = 10
    /\ \E rank1 \in 7..11, rank2 \in 5..9 :
          /\ rank1 > rank2
          /\ heat.range_data[rank1][rank2] = heat.base[rank1][rank2] + 2

\* C25: for the same scenario and the same two hole cards, the quiz reads the
\* same frequency cell as the simulation tab does, for every rank of each card
\* (K and A included), without failing
C25_QuizReadsTheSameCell ==
    Checked => heat.exception = "none" /\ heat.quiz_frequency = heat.frequency

\* C26: in the UTG Open range with the standard opponent type, a suited
\* broadway hand has frequency 1.0 and an offsuit one 0.7 when its higher rank
\* is K or A and 0.0 otherwise, as looked up by the application
C26_UTGOpenBroadway ==
    (/\ Analysed
     /\ heat.position = "UTG" /\ heat.action = "Open"
     /\ heat.opponent_type = "standard"
     /\ Broadway(heat.hand))
    => /\ Suited(heat.hand) => heat.frequency = 10
       /\ Offsuit(heat.hand) =>
             heat.frequency = (IF HigherRank(heat.hand) >= 13 THEN 7 ELSE 0)

\* C27: adjust_for_opponent_type changes no pocket-pair cell and leaves the
\* matrix it is given as it was: the diagonal of the adjusted range is the
\* diagonal of the standard range, and range_data after the call is the
\* range_data of before
C27_PairsAndArgumentUntouched ==
    Loaded => /\ Diagonal(heat.range_data) = Diagonal(heat.base)
              /\ heat.argument = heat.base
              /\ heat.base = load_range_data(heat.position, heat.action, "standard")

\* an adjustment whose loops run over pairs of equal ranks and that changed
\* cells off the diagonal
C27_Witness ==
    /\ Loaded
    /\ heat.opponent_type = "loose" /\ heat.action = "Open"
    /\ heat.base[5][5] > 0
    /\ heat.range_data # heat.base
    /\ heat.argument = heat.base


-----------------------------------------------------------------------------
(* the quiz and its session state                                           *)

QuizAtRest == quiz # Idle /\ quiz.pc = "idle"
InLoop == quiz # Idle /\ quiz.pc = "loop"
HandStored == quiz # Idle /\ quiz.hand # Absent

\* C28: the quiz scenario and the quiz hand of the session state stay as they
\* are across reruns of the page, and pressing the new-quiz button after an
\* answer has been checked deletes both, so that the following run generates
\* a fresh scenario and a fresh hand
C28_SessionKeptAndNewQuizResets ==
    QuizAtRest =>
        /\ quiz.trigger \in {"none", "check"} =>
              <<quiz.scenario, quiz.hand>> = quiz.at_start
        /\ ~quiz.pending_new

\* C29: the quiz hand generation never stores a hand of two identical cards,
\* and the redraw loop terminates: from any first draw, with fair random
\* choices, the loop is left with two different cards
C29_HandDistinctAndLoopEnds ==
    /\ [](HandStored => ~(quiz.hand[1] = quiz.hand[3] /\ quiz.hand[2] = quiz.hand[4]))
    /\ InLoop ~> (~InLoop /\ HandStored
                  /\ <<quiz.hand[1], quiz.hand[2]>> # <<quiz.hand[3], quiz.hand[4]>>)

\* a hand stored after the first draw gave the same card twice and the loop
\* drew again
C29_Witness ==
    /\ QuizAtRest /\ HandStored /\ quiz.redrawn
    /\ quiz.hand = quiz.draw
    /\ <<quiz.hand[1], quiz.hand[2]>> # <<quiz.hand[3], quiz.hand[4]>>


-----------------------------------------------------------------------------
(* the card conversion                                                      *)

ConvertedBack == conv # Idle /\ conv.pc = "back"
RankAndSymbol == conv.rank \in Range(STR_RANKS) /\ conv.suit \in Range(SuitSymbols)
TheCards == {card_to_treys(rank, suit) : rank \in Range(STR_RANKS), suit \in Range(SuitSymbols)}

\* C30: card conversion round-trips: for each of the 13 ranks and each of the
\* 4 suit symbols treys_to_card(card_to_treys(rank, suit)) = (rank, suit), and
\* card_to_treys maps the 52 (rank, suit) pairs to 52 distinct cards; an empty
\* rank or suit maps to None, and None maps back to (None, None)
C30_ConversionRoundTrips ==
    ConvertedBack =>
        /\ RankAndSymbol =>
              /\ conv.card_int # None
              /\ conv.card = <<conv.rank, conv.suit>>
              /\ \A rank \in Range(STR_RANKS), suit \in Range(SuitSymbols) :
                    card_to_treys(rank, suit) = conv.card_int
                        => <<rank, suit>> = <<conv.rank, conv.suit>>
        /\ Cardinality(TheCards) = 52
        /\ (conv.rank = "" \/ conv.suit = "") =>
              /\ conv.card_int = None
              /\ conv.card = <<None, None>>

\* a card that went through both conversions, and an empty one
C30_Witness ==
    /\ ConvertedBack
    /\ conv.rank = "T" /\ conv.suit = "DIAMOND"
    /\ conv.card_int # None
    /\ conv.card = <<"T", "DIAMOND">>

====
